---- MODULE Spec2Model ----
(***************************************************************************)
(* A model of the recursive-descent SQL parser of src/src/parser.rs.       *)
(*                                                                         *)
(* The parser object is a token vector and a cursor (`index`).  Every      *)
(* parsing method is an operator from the cursor on entry to a record      *)
(*     [st |-> "ok" | "err" | "panic", val |-> ..., idx |-> cursor on exit]*)
(* "ok" is Ok(val), "err" is Err(ParserError::Unexpected) built from the   *)
(* offending token and its location, "panic" is a todo!() being reached.   *)
(* The cursor is 0-based as in the source.                                 *)
(***************************************************************************)
EXTENDS Integers, Sequences, FiniteSets, TLC

VARIABLES tokens, index, pc, cur, statements, result, want

vars == <<tokens, index, pc, cur, statements, result, want>>

(***************************************************************************)
(* Tokens (crate::tokeniser::Token) and their locations.                   *)
(***************************************************************************)
TokenKeyword(kw) == [kind |-> "Keyword", val |-> kw]
TokenIdent(s) == [kind |-> "Ident", val |-> s]
TokenStringLiteral(s) == [kind |-> "StringLiteral", val |-> s]
TokenNumberLiteral(s) == [kind |-> "NumberLiteral", val |-> s]
TokenDot == [kind |-> "Dot", val |-> ""]
TokenComma == [kind |-> "Comma", val |-> ""]
TokenLParen == [kind |-> "LParen", val |-> ""]
TokenRParen == [kind |-> "RParen", val |-> ""]
TokenSemicolon == [kind |-> "Semicolon", val |-> ""]
TokenAsterisk == [kind |-> "Asterisk", val |-> ""]
TokenEq == [kind |-> "Eq", val |-> ""]
TokenNeq == [kind |-> "Neq", val |-> ""]
TokenLt == [kind |-> "Lt", val |-> ""]
TokenLe == [kind |-> "Le", val |-> ""]
TokenGt == [kind |-> "Gt", val |-> ""]
TokenGe == [kind |-> "Ge", val |-> ""]
TokenEof == [kind |-> "Eof", val |-> ""]

\* Location::default(), the location of the End-of-Input token of `get`.
DefaultLocation == 0

TokenWithLocation(t, l) == [tok |-> t, loc |-> l]

IsKeyword(t, kw) == t.kind = "Keyword" /\ t.val = kw

(***************************************************************************)
(* Results.                                                                *)
(***************************************************************************)
Ok(v, i) == [st |-> "ok", val |-> v, idx |-> i]

\* Err(Unexpected(&token, &location))?
Unexpected(twl, i) == [st |-> "err", val |-> twl, idx |-> i]

\* todo!()
Todo(i) == [st |-> "panic", val |-> "not yet implemented", idx |-> i]

Unit == "()"

(***************************************************************************)
(* The AST.                                                                *)
(***************************************************************************)
ValueNumber(s) == [vt |-> "Number", number |-> s]
ValueString(s) == [vt |-> "String", string |-> s]
ValueBool(b) == [vt |-> "Bool", bool |-> b]
ValueNull == [vt |-> "Null"]

ExprIdent(s) == [tag |-> "Ident", name |-> s]
ExprCompoundIdent(parts) == [tag |-> "CompoundIdent", parts |-> parts]
ExprValue(v) == [tag |-> "Value", value |-> v]
ExprInList(e, list, negated) ==
    [tag |-> "InList", expr |-> e, list |-> list, negated |-> negated]
ExprBetween(e, negated, low, high) ==
    [tag |-> "Between", expr |-> e, negated |-> negated, low |-> low, high |-> high]
ExprBinaryOp(left, op, right) ==
    [tag |-> "BinaryOp", left |-> left, op |-> op, right |-> right]

SelectItemExpr(e) == [tag |-> "Expr", expr |-> e]
SelectItemAliasedExpr(e, alias) == [tag |-> "AliasedExpr", expr |-> e, alias |-> alias]
SelectItemQualifiedWildcard(parts) == [tag |-> "QualifiedWildcard", parts |-> parts]
SelectItemWildcard == [tag |-> "Wildcard"]

ColumnTypeInt == [ty |-> "Int"]
ColumnTypeVarchar(n) == [ty |-> "Varchar", max |-> n]
ColumnDef(ty, name) == [ty |-> ty, name |-> name]

StatementInsert == [tag |-> "Insert"]
StatementUpdate == [tag |-> "Update"]
StatementDelete == [tag |-> "Delete"]
StatementCreate(name, columns) == [tag |-> "Create", name |-> name, columns |-> columns]

(***************************************************************************)
(* The token cursor.                                                       *)
(***************************************************************************)
get(i) ==
    IF i < Len(tokens)
    THEN TokenWithLocation(tokens[i + 1], i + 1)
    ELSE TokenWithLocation(TokenEof, DefaultLocation)

peek_n(i, n) == get(i + n)

peek(i) == peek_n(i, 0)

\* self.next(): the token at the cursor; the cursor moves to i + 1.
next(i) == get(i)

\* check_tokens / check_keywords: [b |-> matched, idx |-> cursor on exit]
RECURSIVE check_tokens_from(_, _, _, _)
check_tokens_from(ts, k, i, entry) ==
    IF k > Len(ts) THEN [b |-> TRUE, idx |-> i]
    ELSE IF peek(i).tok = ts[k]
         THEN check_tokens_from(ts, k + 1, i + 1, entry)
         ELSE [b |-> FALSE, idx |-> entry]

check_tokens(ts, i) == check_tokens_from(ts, 1, i, i)

\* check_keywords without `self.index = index` on a mismatch.
RECURSIVE check_keywords_no_walk_back(_, _, _, _)
check_keywords_no_walk_back(kws, k, i, entry) ==
    IF k > Len(kws) THEN [b |-> TRUE, idx |-> i]
    ELSE IF IsKeyword(peek(i).tok, kws[k])
         THEN check_keywords_no_walk_back(kws, k + 1, i + 1, entry)
         ELSE [b |-> FALSE, idx |-> i]

RECURSIVE check_keywords_from(_, _, _, _)
check_keywords_from(kws, k, i, entry) ==
    IF k > Len(kws) THEN [b |-> TRUE, idx |-> i]
    ELSE IF IsKeyword(peek(i).tok, kws[k])
         THEN check_keywords_from(kws, k + 1, i + 1, entry)
         ELSE [b |-> FALSE, idx |-> entry]

check_keywords(kws, i) == check_keywords_from(kws, 1, i, i)

RECURSIVE parse_keywords_from(_, _, _)
parse_keywords_from(kws, k, i) ==
    IF k > Len(kws) THEN Ok(Unit, i)
    ELSE IF IsKeyword(next(i).tok, kws[k])
         THEN parse_keywords_from(kws, k + 1, i + 1)
         ELSE Unexpected(next(i), i + 1)

parse_keywords(kws, i) == parse_keywords_from(kws, 1, i)

RECURSIVE parse_tokens_from(_, _, _)
parse_tokens_from(ts, k, i) ==
    IF k > Len(ts) THEN Ok(Unit, i)
    ELSE IF next(i).tok = ts[k]
         THEN parse_tokens_from(ts, k + 1, i + 1)
         ELSE Unexpected(next(i), i + 1)

parse_tokens(ts, i) == parse_tokens_from(ts, 1, i)

(***************************************************************************)
(* The expression parser (precedence climbing).                            *)
(***************************************************************************)
RECURSIVE parse_expr(_, _)
RECURSIVE parse_expr_loop(_, _, _)
RECURSIVE parse_prefix(_)
RECURSIVE parse_infix(_, _, _)
RECURSIVE parse_between(_, _, _)
RECURSIVE parse_in(_, _, _)
RECURSIVE parse_in_list(_, _)

\* next_prec with the precedences of AND and OR exchanged.
next_prec_swapped(i) ==
    LET token == peek(i).tok IN
    IF token.kind \in {"Eq", "Neq", "Lt", "Le", "Gt", "Ge"} THEN Ok(20, i)
    ELSE IF IsKeyword(token, "And") THEN Ok(5, i)
    ELSE IF IsKeyword(token, "Or") THEN Ok(10, i)
    ELSE IF IsKeyword(token, "Not") THEN
        IF IsKeyword(peek_n(i, 1).tok, "Between") THEN Ok(20, i)
        ELSE IF IsKeyword(peek_n(i, 1).tok, "In") THEN Ok(20, i)
        ELSE Unexpected(peek_n(i, 1), i)
    ELSE IF IsKeyword(token, "Is") THEN Ok(17, i)
    ELSE IF IsKeyword(token, "Between") THEN Ok(20, i)
    ELSE IF IsKeyword(token, "In") THEN Ok(20, i)
    ELSE Ok(0, i)

\* next_prec giving NOT its precedence without looking at the token after it.
next_prec_not_unchecked(i) ==
    LET token == peek(i).tok IN
    IF token.kind \in {"Eq", "Neq", "Lt", "Le", "Gt", "Ge"} THEN Ok(20, i)
    ELSE IF IsKeyword(token, "And") THEN Ok(10, i)
    ELSE IF IsKeyword(token, "Or") THEN Ok(5, i)
    ELSE IF IsKeyword(token, "Not") THEN Ok(20, i)
    ELSE IF IsKeyword(token, "Is") THEN Ok(17, i)
    ELSE IF IsKeyword(token, "Between") THEN Ok(20, i)
    ELSE IF IsKeyword(token, "In") THEN Ok(20, i)
    ELSE Ok(0, i)

next_prec(i) ==
    LET token == peek(i).tok IN
    IF token.kind \in {"Eq", "Neq", "Lt", "Le", "Gt", "Ge"} THEN Ok(20, i)
    ELSE IF IsKeyword(token, "And") THEN Ok(10, i)
    ELSE IF IsKeyword(token, "Or") THEN Ok(5, i)
    ELSE IF IsKeyword(token, "Not") THEN
        IF IsKeyword(peek_n(i, 1).tok, "Between") THEN Ok(20, i)
        ELSE IF IsKeyword(peek_n(i, 1).tok, "In") THEN Ok(20, i)
        ELSE Unexpected(peek_n(i, 1), i)
    ELSE IF IsKeyword(token, "Is") THEN Ok(17, i)
    ELSE IF IsKeyword(token, "Between") THEN Ok(20, i)
    ELSE IF IsKeyword(token, "In") THEN Ok(20, i)
    ELSE Ok(0, i)

parse_value(i) ==
    LET t == next(i) IN
    IF IsKeyword(t.tok, "False") THEN Ok(ValueBool(FALSE), i + 1)
    ELSE IF IsKeyword(t.tok, "True") THEN Ok(ValueBool(TRUE), i + 1)
    ELSE IF IsKeyword(t.tok, "Null") THEN Ok(ValueNull, i + 1)
    ELSE IF t.tok.kind = "StringLiteral" THEN Ok(ValueString(t.tok.val), i + 1)
    ELSE IF t.tok.kind = "NumberLiteral" THEN Ok(ValueNumber(t.tok.val), i + 1)
    ELSE Unexpected(t, i + 1)

\* parse_prefix_ident taking a part after every `.` it finds.
RECURSIVE parse_prefix_ident_parts(_, _)
parse_prefix_ident_parts(parts, i) ==
    LET AfterDot(d) ==
            IF ~d.b THEN Ok(ExprCompoundIdent(parts), d.idx)
            ELSE IF next(d.idx).tok.kind # "Ident" THEN Unexpected(next(d.idx), d.idx + 1)
            ELSE parse_prefix_ident_parts(Append(parts, next(d.idx).tok.val), d.idx + 1)
    IN AfterDot(check_tokens(<<TokenDot>>, i))

parse_prefix_ident_unbounded(a, i) ==
    IF ~check_tokens(<<TokenDot>>, i).b THEN Ok(ExprIdent(a), i)
    ELSE parse_prefix_ident_parts(<<a>>, i)

\* The Token::Ident arm of parse_prefix; i is the cursor after self.next().
\* Each step of the body is an operator of the value the step before left.
parse_prefix_ident(a, i) ==
    LET AfterSecondDot(parts, d2) ==
            IF ~d2.b THEN Ok(ExprCompoundIdent(parts), d2.idx)
            ELSE IF next(d2.idx).tok.kind # "Ident"
            THEN Unexpected(next(d2.idx), d2.idx + 1)
            ELSE Ok(ExprCompoundIdent(Append(parts, next(d2.idx).tok.val)), d2.idx + 1)
        AfterFirstDot(d1) ==
            IF ~d1.b THEN Ok(ExprIdent(a), d1.idx)
            ELSE IF next(d1.idx).tok.kind # "Ident"
            THEN Unexpected(next(d1.idx), d1.idx + 1)
            ELSE AfterSecondDot(<<a, next(d1.idx).tok.val>>,
                                check_tokens(<<TokenDot>>, d1.idx + 1))
    IN AfterFirstDot(check_tokens(<<TokenDot>>, i))

parse_prefix(i) ==
    LET t == peek(i)
        AfterValue(v) == IF v.st = "ok" THEN Ok(ExprValue(v.val), v.idx) ELSE v
        AfterRParen(e, r) == IF r.st # "ok" THEN r ELSE Ok(e.val, r.idx)
        AfterExpr(e) ==
            IF e.st # "ok" THEN e
            ELSE AfterRParen(e, parse_tokens(<<TokenRParen>>, e.idx))
    IN
    IF \/ IsKeyword(t.tok, "False")
       \/ IsKeyword(t.tok, "True")
       \/ IsKeyword(t.tok, "Null")
       \/ t.tok.kind = "StringLiteral"
       \/ t.tok.kind = "NumberLiteral"
    THEN AfterValue(parse_value(i))
    ELSE IF t.tok.kind = "Ident" THEN parse_prefix_ident(t.tok.val, i + 1)
    ELSE IF t.tok.kind = "LParen" THEN AfterExpr(parse_expr(0, i + 1))
    ELSE Unexpected(t, i)

\* The loop of parse_expr, entered with the accumulated expression.
parse_expr_loop(expr, prec, i) ==
    LET AfterInfix(r) ==
            IF r.st # "ok" THEN r ELSE parse_expr_loop(r.val, prec, r.idx)
        AfterNextPrec(np) ==
            IF np.st # "ok" THEN np
            ELSE IF prec >= np.val THEN Ok(expr, i)
            ELSE AfterInfix(parse_infix(expr, np.val, i))
    IN AfterNextPrec(next_prec(i))

parse_expr(prec, i) ==
    LET AfterPrefix(p) ==
            IF p.st # "ok" THEN p ELSE parse_expr_loop(p.val, prec, p.idx)
    IN AfterPrefix(parse_prefix(i))

\* The first match of parse_infix: Some(op) as the operator's name, or "None".
infix_op(token) ==
    IF IsKeyword(token, "And") THEN "And"
    ELSE IF IsKeyword(token, "Or") THEN "Or"
    ELSE IF token.kind \in {"Eq", "Neq", "Lt", "Le", "Gt", "Ge"} THEN token.kind
    ELSE "None"

\* parse_between dropping the negation flag.
parse_between_unnegated(expr, negated, i) ==
    LET AfterHigh(low, high) ==
            IF high.st # "ok" THEN high
            ELSE Ok(ExprBetween(expr, FALSE, low.val, high.val), high.idx)
        AfterAnd(low, k) ==
            IF k.st # "ok" THEN k ELSE AfterHigh(low, parse_expr(20, k.idx))
        AfterLow(low) ==
            IF low.st # "ok" THEN low
            ELSE AfterAnd(low, parse_keywords(<<"And">>, low.idx))
    IN AfterLow(parse_expr(20, i))

parse_between(expr, negated, i) ==
    LET AfterHigh(low, high) ==
            IF high.st # "ok" THEN high
            ELSE Ok(ExprBetween(expr, negated, low.val, high.val), high.idx)
        AfterAnd(low, k) ==
            IF k.st # "ok" THEN k ELSE AfterHigh(low, parse_expr(20, k.idx))
        AfterLow(low) ==
            IF low.st # "ok" THEN low
            ELSE AfterAnd(low, parse_keywords(<<"And">>, low.idx))
    IN AfterLow(parse_expr(20, i))

\* The do-while loop of parse_in: Ok(list) at the first non-comma.
parse_in_list(list, i) ==
    LET AfterComma(e, c) ==
            IF c.b THEN parse_in_list(Append(list, e.val), c.idx)
            ELSE Ok(Append(list, e.val), c.idx)
        AfterExpr(e) ==
            IF e.st # "ok" THEN e
            ELSE AfterComma(e, check_tokens(<<TokenComma>>, e.idx))
    IN AfterExpr(parse_expr(0, i))

parse_in(expr, negated, i) ==
    LET AfterRParen(list, r) ==
            IF r.st # "ok" THEN r
            ELSE Ok(ExprInList(expr, list.val, negated), r.idx)
        AfterList(list) ==
            IF list.st # "ok" THEN list
            ELSE AfterRParen(list, parse_tokens(<<TokenRParen>>, list.idx))
        AfterLParen(l) ==
            IF l.st # "ok" THEN l ELSE AfterList(parse_in_list(<<>>, l.idx))
    IN AfterLParen(parse_tokens(<<TokenLParen>>, i))

\* parse_infix_binary_op parsing its right-hand side one level lower.
parse_infix_binary_op_lower(expr, op, prec, i) ==
    LET AfterRight(right) ==
            IF right.st # "ok" THEN right
            ELSE Ok(ExprBinaryOp(expr, op, right.val), right.idx)
    IN AfterRight(parse_expr(prec - 1, i))

\* Lines 398-404 of parse_infix: `if let Some(op) = op`.
parse_infix_binary_op(expr, op, prec, i) ==
    LET AfterRight(right) ==
            IF right.st # "ok" THEN right
            ELSE Ok(ExprBinaryOp(expr, op, right.val), right.idx)
    IN AfterRight(parse_expr(prec, i))

parse_infix(expr, prec, i) ==
    LET t == next(i)
        AfterIn(negated, inlist) ==
            IF inlist.b THEN parse_in(expr, negated.b, inlist.idx)
            ELSE Unexpected(t, inlist.idx)
        AfterBetween(negated, between) ==
            IF between.b THEN parse_between(expr, negated.b, between.idx)
            ELSE AfterIn(negated, check_keywords(<<"In">>, between.idx))
        AfterNot(negated) ==
            AfterBetween(negated, check_keywords(<<"Between">>, negated.idx))
    IN
    IF infix_op(t.tok) # "None"
    THEN parse_infix_binary_op(expr, infix_op(t.tok), prec, i + 1)
    ELSE IF IsKeyword(t.tok, "Is") THEN Todo(i + 1)
    ELSE IF \/ IsKeyword(t.tok, "Not")
            \/ IsKeyword(t.tok, "Between")
            \/ IsKeyword(t.tok, "In")
    THEN AfterNot(check_keywords(<<"Not">>, (i + 1) - 1))
    ELSE Unexpected(t, i + 1)

(***************************************************************************)
(* SELECT: projection items.                                               *)
(***************************************************************************)
\* Falling out of the match of line 278 at cursor i: control reaches line 306.
FallThrough(i) == [st |-> "none", val |-> Unit, idx |-> i]

\* Lines 277-304 of parse_select_item, the speculative attempt at `*`,
\* `a.*` and `a.b.*`.  "ok" and "err" are its early returns; "none" is
\* control reaching line 306 with the cursor idx.
try_qualified_wildcard(i) ==
    LET t == next(i)
        AfterSecondDot(parts, d2) ==
            IF ~d2.b THEN FallThrough(d2.idx)
            ELSE IF next(d2.idx).tok.kind = "Ident" THEN FallThrough(d2.idx + 1)
            ELSE IF next(d2.idx).tok.kind = "Asterisk"
            THEN Ok(SelectItemQualifiedWildcard(parts), d2.idx + 1)
            ELSE Unexpected(next(d2.idx), d2.idx + 1)
        AfterFirstDot(d1) ==
            IF ~d1.b THEN FallThrough(d1.idx)
            ELSE IF next(d1.idx).tok.kind = "Asterisk"
            THEN Ok(SelectItemQualifiedWildcard(<<t.tok.val>>), d1.idx + 1)
            ELSE IF next(d1.idx).tok.kind # "Ident"
            THEN Unexpected(next(d1.idx), d1.idx + 1)
            ELSE AfterSecondDot(<<t.tok.val, next(d1.idx).tok.val>>,
                                check_tokens(<<TokenDot>>, d1.idx + 1))
    IN
    IF t.tok.kind = "Asterisk" THEN Ok(SelectItemWildcard, i + 1)
    ELSE IF t.tok.kind # "Ident" THEN FallThrough(i + 1)
    ELSE AfterFirstDot(check_tokens(<<TokenDot>>, i + 1))

\* Lines 307-316 of parse_select_item: the expression and its optional alias.
parse_select_item_expr(i) ==
    LET AfterAs(e, as) ==
            IF ~as.b THEN Ok(SelectItemExpr(e.val), as.idx)
            ELSE IF next(as.idx).tok.kind = "Ident"
            THEN Ok(SelectItemAliasedExpr(e.val, next(as.idx).tok.val), as.idx + 1)
            ELSE Unexpected(next(as.idx), as.idx + 1)
        AfterExpr(e) ==
            IF e.st # "ok" THEN e
            ELSE AfterAs(e, check_keywords(<<"As">>, e.idx))
    IN AfterExpr(parse_expr(0, i))

parse_select_item(i) ==
    LET AfterAttempt(entry, w) ==
            IF w.st # "none" THEN w ELSE parse_select_item_expr(entry)
    IN AfterAttempt(i, try_qualified_wildcard(i))

RECURSIVE parse_projection_items(_, _)
parse_projection_items(items, i) ==
    LET AfterComma(item, c) ==
            IF c.b THEN parse_projection_items(Append(items, item.val), c.idx)
            ELSE Ok(Append(items, item.val), c.idx)
        AfterItem(item) ==
            IF item.st # "ok" THEN item
            ELSE AfterComma(item, check_tokens(<<TokenComma>>, item.idx))
    IN AfterItem(parse_select_item(i))

parse_projection(i) == parse_projection_items(<<>>, i)

\* parse_select: the Result of parse_projection is bound, not propagated
\* (line 170 has no `?`); the Select literal of line 192 is todo!().
parse_select(i) ==
    LET AfterLimit(l) == Todo(l.idx)
        AfterOrderBy(o) == AfterLimit(check_keywords(<<"Limit">>, o.idx))
        AfterGroupBy(g) == AfterOrderBy(check_keywords(<<"Order", "By">>, g.idx))
        AfterWhere(w) == AfterGroupBy(check_keywords(<<"Group", "By">>, w.idx))
        AfterFrom(f) ==
            IF f.st # "ok" THEN f ELSE AfterWhere(check_keywords(<<"Where">>, f.idx))
        AfterProjection(projection) ==
            IF projection.st = "panic" THEN projection
            ELSE AfterFrom(parse_keywords(<<"From">>, projection.idx))
        AfterSelect(k) ==
            IF k.st # "ok" THEN k ELSE AfterProjection(parse_projection(k.idx))
    IN AfterSelect(parse_keywords(<<"Select">>, i))

parse_insert(i) == Ok(StatementInsert, i)

parse_update(i) == Ok(StatementUpdate, i)

parse_delete(i) == Ok(StatementDelete, i)

(***************************************************************************)
(* CREATE TABLE.                                                           *)
(***************************************************************************)
\* The characters of the number literals the inputs use.
Chars(s) ==
    CASE s = "0" -> <<"0">>
      [] s = "5" -> <<"5">>
      [] s = "200" -> <<"2", "0", "0">>
      [] s = "1024" -> <<"1", "0", "2", "4">>
      [] s = "65535" -> <<"6", "5", "5", "3", "5">>
      [] s = "65536" -> <<"6", "5", "5", "3", "6">>
      [] s = "99999" -> <<"9", "9", "9", "9", "9">>
      [] s = "1.5" -> <<"1", ".", "5">>
      [] OTHER -> <<>>

to_digit(c) ==
    CASE c = "0" -> 0 [] c = "1" -> 1 [] c = "2" -> 2 [] c = "3" -> 3
      [] c = "4" -> 4 [] c = "5" -> 5 [] c = "6" -> 6 [] c = "7" -> 7
      [] c = "8" -> 8 [] c = "9" -> 9 [] OTHER -> -1

U16Max == 65535

\* str::parse::<u16> with wrapping arithmetic in place of checked_mul /
\* checked_add: a number that does not fit is reduced modulo 2^16.
RECURSIVE u16_from_chars_wrapping(_, _, _)
u16_from_chars_wrapping(cs, k, acc) ==
    IF k > Len(cs) THEN acc
    ELSE IF to_digit(cs[k]) < 0 THEN -1
    ELSE u16_from_chars_wrapping(cs, k + 1, (acc * 10 + to_digit(cs[k])) % (U16Max + 1))

\* str::parse::<u16>: digit by digit with checked_mul / checked_add;
\* -1 stands for Err(ParseIntError).
RECURSIVE u16_from_chars(_, _, _)
u16_from_chars(cs, k, acc) ==
    IF k > Len(cs) THEN acc
    ELSE IF to_digit(cs[k]) < 0 THEN -1
    ELSE IF acc * 10 > U16Max THEN -1
    ELSE IF acc * 10 + to_digit(cs[k]) > U16Max THEN -1
    ELSE u16_from_chars(cs, k + 1, acc * 10 + to_digit(cs[k]))

parse_u16(s) == IF Chars(s) = <<>> THEN -1 ELSE u16_from_chars(Chars(s), 1, 0)

parse_column_def(i) ==
    LET n == next(i)
        t == next(i + 1)
        AfterRParen(max, r) ==
            IF r.st # "ok" THEN r
            ELSE Ok(ColumnDef(ColumnTypeVarchar(max), n.tok.val), r.idx)
        AfterMax(m, i3, max) ==
            IF m.tok.kind # "NumberLiteral" THEN Unexpected(m, i3)
            ELSE IF max < 0 THEN Unexpected(m, i3)
            ELSE AfterRParen(max, parse_tokens(<<TokenRParen>>, i3))
        AfterLParen(l) ==
            IF l.st # "ok" THEN l
            ELSE AfterMax(next(l.idx), l.idx + 1,
                          IF next(l.idx).tok.kind = "NumberLiteral"
                          THEN parse_u16(next(l.idx).tok.val) ELSE -1)
    IN
    IF n.tok.kind # "Ident" THEN Unexpected(n, i + 1)
    ELSE IF IsKeyword(t.tok, "Int") THEN Ok(ColumnDef(ColumnTypeInt, n.tok.val), i + 2)
    ELSE IF IsKeyword(t.tok, "Varchar")
    THEN AfterLParen(parse_tokens(<<TokenLParen>>, i + 2))
    ELSE Unexpected(t, i + 2)

\* parse_create_columns as a while loop: it stops at the first token that
\* does not start a column.
RECURSIVE parse_create_columns_while(_, _)
parse_create_columns_while(columns, i) ==
    LET AfterComma(c, m) ==
            IF m.b THEN parse_create_columns_while(Append(columns, c.val), m.idx)
            ELSE Ok(Append(columns, c.val), m.idx)
        AfterColumn(c) ==
            IF c.st # "ok" THEN c
            ELSE AfterComma(c, check_tokens(<<TokenComma>>, c.idx))
    IN
    IF peek(i).tok.kind # "Ident" THEN Ok(columns, i)
    ELSE AfterColumn(parse_column_def(i))

\* The do-while loop of parse_create: Ok(columns) at the first non-comma.
RECURSIVE parse_create_columns(_, _)
parse_create_columns(columns, i) ==
    LET AfterComma(c, m) ==
            IF m.b THEN parse_create_columns(Append(columns, c.val), m.idx)
            ELSE Ok(Append(columns, c.val), m.idx)
        AfterColumn(c) ==
            IF c.st # "ok" THEN c
            ELSE AfterComma(c, check_tokens(<<TokenComma>>, c.idx))
    IN AfterColumn(parse_column_def(i))

parse_create(i) ==
    LET AfterRParen(name, columns, r) ==
            IF r.st # "ok" THEN r
            ELSE Ok(StatementCreate(name, columns.val), r.idx)
        AfterColumns(name, columns) ==
            IF columns.st # "ok" THEN columns
            ELSE AfterRParen(name, columns, parse_tokens(<<TokenRParen>>, columns.idx))
        AfterLParen(name, l) ==
            IF l.st # "ok" THEN l
            ELSE AfterColumns(name, parse_create_columns(<<>>, l.idx))
        AfterCreateTable(k) ==
            IF k.st # "ok" THEN k
            ELSE IF next(k.idx).tok.kind # "Ident" THEN Unexpected(next(k.idx), k.idx + 1)
            ELSE AfterLParen(next(k.idx).tok.val,
                             parse_tokens(<<TokenLParen>>, k.idx + 1))
    IN AfterCreateTable(parse_keywords(<<"Create", "Table">>, i))

(***************************************************************************)
(* Inputs.  A source term is an AST in which "Nested" marks a              *)
(* parenthesised sub-expression; Render gives its tokens and Meaning the   *)
(* AST it denotes.                                                         *)
(***************************************************************************)
Nested(e) == [tag |-> "Nested", expr |-> e]

BinaryOps == {"Eq", "Neq", "Lt", "Le", "Gt", "Ge", "And", "Or"}

OpToken(op) ==
    IF op \in {"And", "Or"} THEN TokenKeyword(op) ELSE [kind |-> op, val |-> ""]

ValueToken(v) ==
    CASE v.vt = "Number" -> TokenNumberLiteral(v.number)
      [] v.vt = "String" -> TokenStringLiteral(v.string)
      [] v.vt = "Bool" -> TokenKeyword(IF v.bool THEN "True" ELSE "False")
      [] v.vt = "Null" -> TokenKeyword("Null")

RECURSIVE Dotted(_)
Dotted(parts) ==
    IF Len(parts) = 1 THEN <<TokenIdent(parts[1])>>
    ELSE <<TokenIdent(parts[1]), TokenDot>> \o Dotted(Tail(parts))

RECURSIVE Render(_)
RECURSIVE RenderList(_)
Render(e) ==
    CASE e.tag = "Ident" -> <<TokenIdent(e.name)>>
      [] e.tag = "CompoundIdent" -> Dotted(e.parts)
      [] e.tag = "Value" -> <<ValueToken(e.value)>>
      [] e.tag = "Nested" -> <<TokenLParen>> \o Render(e.expr) \o <<TokenRParen>>
      [] e.tag = "BinaryOp" -> Render(e.left) \o <<OpToken(e.op)>> \o Render(e.right)
      [] e.tag = "Between" ->
            Render(e.expr)
            \o (IF e.negated THEN <<TokenKeyword("Not")>> ELSE <<>>)
            \o <<TokenKeyword("Between")>> \o Render(e.low)
            \o <<TokenKeyword("And")>> \o Render(e.high)
      [] e.tag = "InList" ->
            Render(e.expr)
            \o (IF e.negated THEN <<TokenKeyword("Not")>> ELSE <<>>)
            \o <<TokenKeyword("In"), TokenLParen>> \o RenderList(e.list)
            \o <<TokenRParen>>

RenderList(l) ==
    IF Len(l) = 0 THEN <<>>
    ELSE IF Len(l) = 1 THEN Render(l[1])
    ELSE Render(l[1]) \o <<TokenComma>> \o RenderList(Tail(l))

RECURSIVE Meaning(_)
Meaning(e) ==
    CASE e.tag = "Nested" -> Meaning(e.expr)
      [] e.tag = "BinaryOp" -> ExprBinaryOp(Meaning(e.left), e.op, Meaning(e.right))
      [] e.tag = "Between" ->
            ExprBetween(Meaning(e.expr), e.negated, Meaning(e.low), Meaning(e.high))
      [] e.tag = "InList" ->
            ExprInList(Meaning(e.expr),
                       [k \in 1..Len(e.list) |-> Meaning(e.list[k])], e.negated)
      [] OTHER -> e

\* Prefix terms: identifiers, compound identifiers, literals, parentheses.
Terms ==
    { ExprIdent("c1"),
      ExprCompoundIdent(<<"t1", "c1">>),
      ExprCompoundIdent(<<"s1", "t1", "c1">>),
      ExprValue(ValueNumber("5")),
      ExprValue(ValueString("2")),
      ExprValue(ValueNull),
      Nested(ExprBinaryOp(ExprValue(ValueNumber("5")), "Lt", ExprIdent("c2"))) }

\* Elements of IN lists.
ListElems ==
    { ExprValue(ValueNumber("1024")), ExprValue(ValueString("2")), ExprIdent("c2") }

MaxList == 2

MaxLen == 3

MaxParts == 4

RECURSIVE SeqsUpTo(_, _)
SeqsUpTo(S, n) ==
    IF n = 0 THEN {<<>>}
    ELSE LET shorter == SeqsUpTo(S, n - 1) IN
         shorter \cup {Append(q, x) : q \in {r \in shorter : Len(r) = n - 1}, x \in S}

Lists == SeqsUpTo(ListElems, MaxList) \ {<<>>}

\* `a op b op c`
ChainInputs ==
    { Render(ExprBinaryOp(ExprBinaryOp(a, op1, b), op2, c)) :
        a \in Terms, b \in Terms, c \in Terms, op1 \in BinaryOps, op2 \in BinaryOps }

\* `x [NOT] BETWEEN l AND h`, `x [NOT] IN (..)`, `a AND b [NOT] IN (..)`
BetweenInputs ==
    { Render(ExprBetween(x, n, l, h)) :
        x \in Terms, n \in BOOLEAN, l \in Terms, h \in Terms }

InInputs ==
    { Render(ExprInList(x, l, n)) : x \in Terms, l \in Lists, n \in BOOLEAN }
    \cup { Render(ExprBinaryOp(a, "And", ExprInList(x, l, n))) :
             a \in Terms, x \in Terms, l \in Lists, n \in BOOLEAN }

\* `a`, `a.b`, `a.b.c`, `a.b.c.d`, ... alone or as the left of a comparison
DottedNames == {"s1", "t1"}

DottedInputs ==
    { Dotted(p) \o tail :
        p \in SeqsUpTo(DottedNames, MaxParts) \ {<<>>},
        tail \in {<<>>, <<TokenGt, TokenNumberLiteral("5")>>} }

\* Every short sequence over the tokens of expressions.
ExprTokens ==
    { TokenIdent("c1"), TokenNumberLiteral("5"), TokenStringLiteral("2"),
      TokenKeyword("True"), TokenKeyword("Null"),
      TokenDot, TokenComma, TokenLParen, TokenRParen, TokenAsterisk,
      TokenLt, TokenEq, TokenKeyword("And"), TokenKeyword("Or"),
      TokenKeyword("Not"), TokenKeyword("Between"), TokenKeyword("In"),
      TokenKeyword("Is"), TokenKeyword("As") }

ExprTokenInputs == SeqsUpTo(ExprTokens, MaxLen)

\* Well-formed expressions, rendered from source terms.
ExprInputs == ChainInputs \cup BetweenInputs \cup InInputs \cup DottedInputs

(***************************************************************************)
(* The parser object and its entry points.                                 *)
(***************************************************************************)
NoResult == [st |-> "none", val |-> Unit, idx |-> 0]

\* Parser::new: the cursor at 0.
New(input, entry) ==
    /\ tokens = input
    /\ index = 0
    /\ pc = entry
    /\ cur = TokenWithLocation(TokenEof, DefaultLocation)
    /\ statements = <<>>
    /\ result = NoResult
    /\ want = <<>>

\* parser.parse_expr(0), as the expression tests call it.
CallParseExpr ==
    /\ pc = "parse_expr"
    /\ LET Return(r) == result' = r /\ index' = r.idx
       IN Return(parse_expr(0, index))
    /\ pc' = "done"
    /\ UNCHANGED <<tokens, cur, statements, want>>

InitExpr ==
    \/ \E input \in ExprInputs : New(input, "parse_expr")
    \/ \E input \in ExprTokenInputs : New(input, "parse_expr")

NextExpr == CallParseExpr

SpecExpr == InitExpr /\ [][NextExpr]_vars

(***************************************************************************)
(* Reading the input back: the source terms whose tokens stand at k.       *)
(***************************************************************************)
MatchesAt(ts, k) ==
    /\ k + Len(ts) <= Len(tokens)
    /\ SubSeq(tokens, k + 1, k + Len(ts)) = ts

TermsAt(k) == {t \in Terms : MatchesAt(Render(t), k)}

BinaryOpsAt(k) == {op \in BinaryOps : MatchesAt(<<OpToken(op)>>, k)}

\* The decompositions of the whole input as `a op1 b op2 c`.
ChainsOfInput ==
    UNION { UNION { UNION { UNION {
        { [a |-> a, op1 |-> op1, b |-> b, op2 |-> op2, c |-> c] :
            c \in { t \in TermsAt(Len(Render(a)) + Len(Render(b)) + 2) :
                      Len(Render(a)) + Len(Render(b)) + Len(Render(t)) + 2
                          = Len(tokens) } } :
        op2 \in BinaryOpsAt(Len(Render(a)) + Len(Render(b)) + 1) } :
        b \in TermsAt(Len(Render(a)) + 1) } :
        op1 \in BinaryOpsAt(Len(Render(a))) } :
        a \in TermsAt(0) }

\* The precedence table as the specification states it.
TablePrec(op) == IF op = "And" THEN 10 ELSE IF op = "Or" THEN 5 ELSE 20

RightNested(ch) ==
    ExprBinaryOp(Meaning(ch.a), ch.op1, ExprBinaryOp(Meaning(ch.b), ch.op2, Meaning(ch.c)))

LeftNested(ch) ==
    ExprBinaryOp(ExprBinaryOp(Meaning(ch.a), ch.op1, Meaning(ch.b)), ch.op2, Meaning(ch.c))

\* C5: parse_expr(0) respects the precedence table.  On `a op1 b op2 c`
\* with prefix terms a, b, c: when op1 binds looser than op2 the result is
\* BinaryOp(a, op1, BinaryOp(b, op2, c)); when op1 binds tighter it is
\* BinaryOp(BinaryOp(a, op1, b), op2, c); and `a AND b IN (..)` is
\* BinaryOp(a, And, InList{expr: b, ..}) with the list in source order.
C5_Precedence ==
    pc = "done" =>
        /\ \A ch \in ChainsOfInput :
            /\ TablePrec(ch.op1) < TablePrec(ch.op2)
                  => result = Ok(RightNested(ch), Len(tokens))
            /\ TablePrec(ch.op1) > TablePrec(ch.op2)
                  => result = Ok(LeftNested(ch), Len(tokens))
        /\ \A a \in TermsAt(0) : \A b \in TermsAt(Len(Render(a)) + 1) :
            \A l \in Lists :
                tokens = Render(ExprBinaryOp(a, "And", ExprInList(b, l, FALSE)))
                    => result = Ok(ExprBinaryOp(Meaning(a), "And",
                                       ExprInList(Meaning(b), l, FALSE)), Len(tokens))

C5_Witness ==
    /\ pc = "done"
    /\ \E ch \in ChainsOfInput :
        /\ ch.op1 = "Or" /\ ch.op2 = "And"
        /\ ch.b.tag = "Nested"
        /\ result = Ok(RightNested(ch), Len(tokens))

\* C6 as claimed: a chain of equal-precedence operators `a op b op c`
\* parses to BinaryOp(a, op, BinaryOp(b, op, c)).
C6_RightAssociative ==
    pc = "done" =>
        \A ch \in ChainsOfInput :
            ch.op1 = ch.op2 => result = Ok(RightNested(ch), Len(tokens))

\* C6 amended: binary operators are left-associative.  The right-hand side
\* is parsed at the operator's own precedence and the loop of parse_expr
\* stops at a precedence that is not strictly greater, so a chain of
\* equal-precedence operators `a op1 b op2 c` parses to
\* BinaryOp(BinaryOp(a, op1, b), op2, c).
C6_LeftAssociative ==
    pc = "done" =>
        \A ch \in ChainsOfInput :
            TablePrec(ch.op1) = TablePrec(ch.op2)
                => result = Ok(LeftNested(ch), Len(tokens))

C6_Witness ==
    /\ pc = "done"
    /\ \E ch \in ChainsOfInput :
        /\ ch.op1 = "And" /\ ch.op2 = "And"
        /\ result = Ok(LeftNested(ch), Len(tokens))

\* C7: negation propagation.  `x [NOT] BETWEEN l AND h` gives
\* Between{x, negated, l, h} and `x [NOT] IN (..)` gives InList{x, .., negated}
\* where negated is true exactly when NOT stands before BETWEEN / IN, and
\* the probe, the bounds and the list are the same with and without NOT.
C7_Negation ==
    pc = "done" =>
        \A x \in TermsAt(0) : \A n \in BOOLEAN :
            /\ \A l \in Terms : \A h \in Terms :
                tokens = Render(ExprBetween(x, n, l, h))
                    => result = Ok(ExprBetween(Meaning(x), n, Meaning(l), Meaning(h)),
                                   Len(tokens))
            /\ \A l \in Lists :
                tokens = Render(ExprInList(x, l, n))
                    => result = Ok(ExprInList(Meaning(x), l, n), Len(tokens))

C7_Witness ==
    /\ pc = "done"
    /\ tokens = Render(ExprBetween(ExprIdent("c1"), TRUE,
                                   ExprValue(ValueNumber("5")), ExprValue(ValueString("2"))))
    /\ result.st = "ok"
    /\ result.val.tag = "Between"
    /\ result.val.negated

\* Every CompoundIdent of an expression has 2 or 3 parts which stand, dotted
\* and in this order, in the input.
RECURSIVE CompoundIdentsBounded(_)
CompoundIdentsBounded(e) ==
    CASE e.tag = "CompoundIdent" ->
            /\ Len(e.parts) \in {2, 3}
            /\ \E k \in 0..Len(tokens) : MatchesAt(Dotted(e.parts), k)
      [] e.tag = "BinaryOp" ->
            CompoundIdentsBounded(e.left) /\ CompoundIdentsBounded(e.right)
      [] e.tag = "Between" ->
            /\ CompoundIdentsBounded(e.expr)
            /\ CompoundIdentsBounded(e.low)
            /\ CompoundIdentsBounded(e.high)
      [] e.tag = "InList" ->
            /\ CompoundIdentsBounded(e.expr)
            /\ \A k \in 1..Len(e.list) : CompoundIdentsBounded(e.list[k])
      [] OTHER -> TRUE

IsIdentAt(k) == peek_n(k, 0).tok.kind = "Ident"

IsDotAt(k) == peek_n(k, 0).tok = TokenDot

NameAt(k) == peek_n(k, 0).tok.val

\* C8: the compound identifier bound.  Every CompoundIdent the expression
\* parser produces has exactly 2 or 3 parts in source order; an identifier
\* not followed by `.` is an Ident; of `a.b.c.d` three parts are consumed
\* and the cursor is left at the fourth `.`.
C8_CompoundIdentBound ==
    /\ (pc = "done" /\ result.st = "ok") => CompoundIdentsBounded(result.val)
    /\ \A k \in 0..Len(tokens) :
        IsIdentAt(k) =>
            /\ ~IsDotAt(k + 1) => parse_prefix(k) = Ok(ExprIdent(NameAt(k)), k + 1)
            /\ (IsDotAt(k + 1) /\ IsIdentAt(k + 2) /\ ~IsDotAt(k + 3))
                  => parse_prefix(k)
                       = Ok(ExprCompoundIdent(<<NameAt(k), NameAt(k + 2)>>), k + 3)
            /\ (IsDotAt(k + 1) /\ IsIdentAt(k + 2) /\ IsDotAt(k + 3) /\ IsIdentAt(k + 4))
                  => parse_prefix(k)
                       = Ok(ExprCompoundIdent(<<NameAt(k), NameAt(k + 2), NameAt(k + 4)>>),
                            k + 5)
    /\ (pc = "done" /\ Len(tokens) >= 7
        /\ (\A k \in {0, 2, 4, 6} : IsIdentAt(k))
        /\ (\A j \in {1, 3, 5} : IsDotAt(j)))
          => /\ result = Ok(ExprCompoundIdent(<<NameAt(0), NameAt(2), NameAt(4)>>), 5)
             /\ index = 5
             /\ peek(index).tok = TokenDot

C8_Witness ==
    /\ pc = "done"
    /\ Len(tokens) = 7
    /\ (\A k \in {0, 2, 4, 6} : IsIdentAt(k))
    /\ (\A j \in {1, 3, 5} : IsDotAt(j))
    /\ result.st = "ok"
    /\ result.val.tag = "CompoundIdent"
    /\ Len(result.val.parts) = 3
    /\ index = 5

(***************************************************************************)
(* parse_projection as an entry point (test_parse_projection).             *)
(***************************************************************************)
MaxItems == 2

\* Select items, well-formed and not.
ItemInputs ==
    { <<TokenAsterisk>>,
      <<TokenIdent("t1"), TokenDot, TokenAsterisk>>,
      <<TokenIdent("s1"), TokenDot, TokenIdent("t1"), TokenDot, TokenAsterisk>>,
      <<TokenIdent("c1")>>,
      <<TokenIdent("t1"), TokenDot, TokenIdent("c1")>>,
      <<TokenIdent("s1"), TokenDot, TokenIdent("t1"), TokenDot, TokenIdent("c1")>>,
      <<TokenIdent("c1"), TokenKeyword("As"), TokenIdent("a1")>>,
      <<TokenIdent("t1"), TokenDot, TokenIdent("c1"), TokenKeyword("As"), TokenIdent("a1")>>,
      <<TokenIdent("s1"), TokenDot, TokenIdent("t1"), TokenDot, TokenIdent("c1"),
        TokenLt, TokenNumberLiteral("5")>>,
      <<TokenNumberLiteral("5"), TokenEq, TokenIdent("c1"), TokenKeyword("As"),
        TokenIdent("a1")>>,
      <<TokenIdent("c1"), TokenKeyword("As"), TokenNumberLiteral("5")>>,
      <<TokenIdent("t1"), TokenDot, TokenNumberLiteral("5")>>,
      <<TokenIdent("s1"), TokenDot, TokenIdent("t1"), TokenDot, TokenKeyword("From")>>,
      <<TokenIdent("c1"), TokenKeyword("Is"), TokenKeyword("Null")>>,
      <<TokenLParen, TokenIdent("c1")>> }

RECURSIVE Separated(_, _)
Separated(parts, sep) ==
    IF Len(parts) = 0 THEN <<>>
    ELSE IF Len(parts) = 1 THEN parts[1]
    ELSE parts[1] \o <<sep>> \o Separated(Tail(parts), sep)

ProjectionTokens ==
    { TokenIdent("c1"), TokenNumberLiteral("5"), TokenDot, TokenComma, TokenAsterisk,
      TokenLParen, TokenRParen, TokenLt, TokenKeyword("And"), TokenKeyword("As"),
      TokenKeyword("From"), TokenKeyword("Not"), TokenKeyword("In") }

\* Every short sequence over the tokens of projections.
ProjectionTokenInputs == SeqsUpTo(ProjectionTokens, MaxLen)

\* Comma-separated lists of select items.
ProjectionInputs ==
    { Separated(items, TokenComma) : items \in SeqsUpTo(ItemInputs, MaxItems) }

\* parser.parse_projection(), as test_parse_projection calls it.
CallParseProjection ==
    /\ pc = "parse_projection"
    /\ LET Return(r) == result' = r /\ index' = r.idx
       IN Return(parse_projection(index))
    /\ pc' = "done"
    /\ UNCHANGED <<tokens, cur, statements, want>>

InitProjection ==
    \/ \E input \in ProjectionInputs : New(input, "parse_projection")
    \/ \E input \in ProjectionTokenInputs : New(input, "parse_projection")

NextProjection == CallParseProjection

SpecProjection == InitProjection /\ [][NextProjection]_vars

\* The cursor positions at which parse_projection starts an item.
RECURSIVE ItemStartsFrom(_)
ItemStartsFrom(k) ==
    {k} \cup
        LET item == parse_select_item(k) IN
        IF item.st = "ok" /\ check_tokens(<<TokenComma>>, item.idx).b
        THEN ItemStartsFrom(item.idx + 1)
        ELSE {}

IsAsteriskAt(k) == peek_n(k, 0).tok = TokenAsterisk

\* C9: wildcard disambiguation in parse_select_item.  `*` is Wildcard, `a.*`
\* is QualifiedWildcard([a]), `a.b.*` is QualifiedWildcard([a, b]); for every
\* other item the speculative attempt fails with the cursor put back to its
\* value on entry, and the item is what parse_expr(0) gives from there,
\* followed by the optional `AS alias`.
C9_WildcardDisambiguation ==
    pc = "done" =>
        \A k \in ItemStartsFrom(0) :
            IF IsAsteriskAt(k)
            THEN parse_select_item(k) = Ok(SelectItemWildcard, k + 1)
            ELSE IF IsIdentAt(k) /\ IsDotAt(k + 1) /\ IsAsteriskAt(k + 2)
            THEN parse_select_item(k)
                   = Ok(SelectItemQualifiedWildcard(<<NameAt(k)>>), k + 3)
            ELSE IF /\ IsIdentAt(k) /\ IsDotAt(k + 1) /\ IsIdentAt(k + 2)
                    /\ IsDotAt(k + 3) /\ IsAsteriskAt(k + 4)
            THEN parse_select_item(k)
                   = Ok(SelectItemQualifiedWildcard(<<NameAt(k), NameAt(k + 2)>>), k + 5)
            ELSE /\ try_qualified_wildcard(k).st = "none"
                 /\ parse_select_item(k) = parse_select_item_expr(k)

(***************************************************************************)
(* parse(): the top-level statement loop, one action per step of an        *)
(* iteration.  pc = "parse" is the head of the loop (line 145), "match"    *)
(* the match on the peeked token (line 148).                               *)
(***************************************************************************)
MaxStatements == 3

MaxColumns == 2

MaxEarlier == 1

\* Column definitions as written: name INT | name VARCHAR(text)
ColumnSources ==
    { [name |-> "c1", ty |-> "Int", text |-> ""],
      [name |-> "c2", ty |-> "Varchar", text |-> "1024"] }

RenderColumn(c) ==
    IF c.ty = "Int" THEN <<TokenIdent(c.name), TokenKeyword("Int")>>
    ELSE <<TokenIdent(c.name), TokenKeyword("Varchar"), TokenLParen,
           TokenNumberLiteral(c.text), TokenRParen>>

\* The length a VARCHAR text denotes, read as a decimal numeral.
RECURSIVE Decimal(_, _)
Decimal(cs, n) ==
    IF n = 0 THEN 0 ELSE Decimal(cs, n - 1) * 10 + to_digit(cs[n])

ColumnOf(c) ==
    IF c.ty = "Int" THEN ColumnDef(ColumnTypeInt, c.name)
    ELSE ColumnDef(ColumnTypeVarchar(Decimal(Chars(c.text), Len(Chars(c.text)))), c.name)

\* `CREATE TABLE name ( col, ..., col [,] )`
RenderCreate(name, cols, trailing) ==
    <<TokenKeyword("Create"), TokenKeyword("Table"), TokenIdent(name), TokenLParen>>
    \o Separated([k \in 1..Len(cols) |-> RenderColumn(cols[k])], TokenComma)
    \o (IF trailing THEN <<TokenComma>> ELSE <<>>)
    \o <<TokenRParen>>

ColumnLists == SeqsUpTo(ColumnSources, MaxColumns)

CreateInputs ==
    { RenderCreate("t1", cols, trailing) : cols \in ColumnLists, trailing \in BOOLEAN }
    \cup { <<TokenKeyword("Create"), TokenKeyword("Table"), TokenIdent("t1"), TokenLParen>>
             \o col \o <<TokenRParen>> :
           col \in { <<TokenIdent("c2"), TokenKeyword("Varchar"), TokenLParen,
                       TokenNumberLiteral("65535"), TokenRParen>>,
                     <<TokenIdent("c2"), TokenKeyword("Varchar"), TokenLParen,
                       TokenNumberLiteral("65536"), TokenRParen>>,
                     <<TokenIdent("c2"), TokenKeyword("Varchar"), TokenLParen,
                       TokenIdent("c1"), TokenRParen>>,
                     <<TokenIdent("c1"), TokenKeyword("Int"), TokenIdent("c2")>>,
                     <<TokenKeyword("Int"), TokenIdent("c1")>> } }

SelectTails ==
    { <<>>,
      <<TokenKeyword("From")>>,
      <<TokenKeyword("From"), TokenIdent("t1")>>,
      <<TokenKeyword("From"), TokenKeyword("Where")>>,
      <<TokenKeyword("From"), TokenKeyword("Group"), TokenKeyword("By")>>,
      <<TokenKeyword("From"), TokenKeyword("Group"), TokenKeyword("Order"),
        TokenKeyword("By"), TokenKeyword("Limit")>>,
      <<TokenSemicolon>> }

SelectInputs ==
    { <<TokenKeyword("Select")>> \o item \o tail : item \in ItemInputs, tail \in SelectTails }

\* Statements that parse and move the cursor, standing before the last one.
EarlierStatements ==
    { Separated(q, TokenSemicolon) \o sep :
        q \in SeqsUpTo({ RenderCreate("t1", cols, FALSE) :
                           cols \in ColumnLists \ {<<>>} }, MaxEarlier),
        sep \in {<<>>, <<TokenSemicolon>>} }

StatementTokens ==
    { TokenKeyword("Select"), TokenKeyword("Insert"), TokenKeyword("Update"),
      TokenKeyword("Delete"), TokenKeyword("Create"), TokenKeyword("Table"),
      TokenKeyword("From"), TokenKeyword("Int"), TokenKeyword("Is"),
      TokenSemicolon, TokenAsterisk, TokenIdent("t1"), TokenLParen, TokenRParen,
      TokenComma }

\* Every short sequence over the tokens of statements.
StatementTokenInputs == SeqsUpTo(StatementTokens, MaxLen)

\* A last statement, well-formed or not, after statements that parse.
ParseInputs ==
    { earlier \o last :
        earlier \in EarlierStatements,
        last \in CreateInputs \cup SelectInputs
                 \cup { <<>>, <<TokenKeyword("Insert")>>, <<TokenKeyword("Update")>>,
                        <<TokenKeyword("Delete")>>, <<TokenIdent("t1")>>,
                        <<TokenKeyword("Table")>> } }

\* let TokenWithLocation(token, location) = self.peek();
Peek ==
    /\ pc = "parse"
    /\ cur' = peek(index)
    /\ pc' = "match"
    /\ UNCHANGED <<tokens, index, statements, result, want>>

\* statements.push(Statement::X(self.parse_x()?)): push and loop, or return
\* the error (a panic unwinds).
PushOrReturn(r) ==
    IF r.st = "ok"
    THEN /\ Len(statements) < MaxStatements
         /\ statements' = Append(statements, r.val)
         /\ index' = r.idx
         /\ pc' = "parse"
         /\ UNCHANGED result
    ELSE /\ result' = r
         /\ index' = r.idx
         /\ statements' = <<>>
         /\ pc' = "done"

MatchSelect ==
    /\ pc = "match"
    /\ IsKeyword(cur.tok, "Select")
    /\ PushOrReturn(parse_select(index))
    /\ UNCHANGED <<tokens, cur, want>>

MatchInsert ==
    /\ pc = "match"
    /\ IsKeyword(cur.tok, "Insert")
    /\ PushOrReturn(parse_insert(index))
    /\ UNCHANGED <<tokens, cur, want>>

MatchUpdate ==
    /\ pc = "match"
    /\ IsKeyword(cur.tok, "Update")
    /\ PushOrReturn(parse_update(index))
    /\ UNCHANGED <<tokens, cur, want>>

MatchDelete ==
    /\ pc = "match"
    /\ IsKeyword(cur.tok, "Delete")
    /\ PushOrReturn(parse_delete(index))
    /\ UNCHANGED <<tokens, cur, want>>

MatchCreate ==
    /\ pc = "match"
    /\ IsKeyword(cur.tok, "Create")
    /\ PushOrReturn(parse_create(index))
    /\ UNCHANGED <<tokens, cur, want>>

\* Line 155: any other keyword.
MatchOtherKeyword ==
    /\ pc = "match"
    /\ cur.tok.kind = "Keyword"
    /\ cur.tok.val \notin {"Select", "Insert", "Update", "Delete", "Create"}
    /\ PushOrReturn(Unexpected(cur, index))
    /\ UNCHANGED <<tokens, cur, want>>

\* Line 157: Token::Semicolon => continue
MatchSemicolon ==
    /\ pc = "match"
    /\ cur.tok = TokenSemicolon
    /\ pc' = "parse"
    /\ UNCHANGED <<tokens, index, cur, statements, result, want>>

\* Line 158: Token::Eof => break, then Ok(statements)
MatchEof ==
    /\ pc = "match"
    /\ cur.tok = TokenEof
    /\ result' = Ok(statements, index)
    /\ statements' = <<>>
    /\ pc' = "done"
    /\ UNCHANGED <<tokens, index, cur, want>>

\* Line 159: any other token.
MatchOtherToken ==
    /\ pc = "match"
    /\ cur.tok.kind \notin {"Keyword", "Semicolon", "Eof"}
    /\ PushOrReturn(Unexpected(cur, index))
    /\ UNCHANGED <<tokens, cur, want>>

Init ==
    \/ \E input \in ParseInputs : New(input, "parse")
    \/ \E input \in StatementTokenInputs : New(input, "parse")

Next ==
    \/ Peek
    \/ MatchSelect
    \/ MatchInsert
    \/ MatchUpdate
    \/ MatchDelete
    \/ MatchCreate
    \/ MatchOtherKeyword
    \/ MatchSemicolon
    \/ MatchEof
    \/ MatchOtherToken

Spec == Init /\ [][Next]_vars

\* C1: parse() terminates: an iteration of the statement loop that goes back
\* to the head of the loop has advanced the cursor (the other iterations end
\* the loop at End-of-Input or return an error).
C1_IterationAdvances ==
    [][(pc = "match" /\ pc' = "parse") => index' > index]_vars

OnlySemicolons == \A k \in 1..Len(tokens) : tokens[k] = TokenSemicolon

\* C2: on an input of `;` tokens only, each `;` at statement position is
\* consumed with no statement pushed, and End-of-Input returns Ok of the
\* empty statement list.
C2_SemicolonsSkipped ==
    [][(OnlySemicolons /\ pc = "match") =>
          IF cur.tok = TokenSemicolon
          THEN index' = index + 1 /\ statements' = <<>> /\ pc' = "parse"
          ELSE pc' = "done" /\ result' = Ok(<<>>, Len(tokens))]_vars

\* C3: no entry point panics: parse() ends in Ok or Err(Unexpected) and no
\* todo!() is reached.
C3_NoPanic == result.st # "panic"

CreateHeaderAt(k) ==
    /\ IsKeyword(peek_n(k, 0).tok, "Create")
    /\ IsKeyword(peek_n(k, 1).tok, "Table")
    /\ IsIdentAt(k + 2)
    /\ peek_n(k, 3).tok = TokenLParen

\* C4: failures propagate immediately: when parse_projection fails inside
\* parse_select, or parse_column_def inside parse_create, parse() returns
\* that same error, with no statements and no further token consumed.
C4_FailuresPropagate ==
    [][(pc = "match") =>
          /\ (IsKeyword(cur.tok, "Select") /\ parse_projection(index + 1).st = "err")
                => /\ pc' = "done"
                   /\ result' = parse_projection(index + 1)
                   /\ index' = parse_projection(index + 1).idx
                   /\ statements' = <<>>
          /\ (CreateHeaderAt(index) /\ parse_column_def(index + 4).st = "err")
                => /\ pc' = "done"
                   /\ result' = parse_column_def(index + 4)
                   /\ index' = parse_column_def(index + 4).idx
                   /\ statements' = <<>>]_vars

Columns(cols) == [k \in 1..Len(cols) |-> ColumnOf(cols[k])]

\* C10: CREATE TABLE.  `CREATE TABLE name ( col_1, ..., col_n )` with n >= 1
\* well-formed columns pushes Create{name, columns} with the n columns in
\* declaration order and leaves the cursor just after `)`; `()` and a
\* trailing comma before `)` return an unexpected-token error; a parsed
\* Create never has zero columns.
C10_CreateTable ==
    /\ [](\A k \in 1..Len(statements) :
            statements[k].tag = "Create" => Len(statements[k].columns) >= 1)
    /\ [][(pc = "match" /\ IsKeyword(cur.tok, "Create")) =>
            \A cols \in SeqsUpTo(ColumnSources, MaxColumns + 1) :
                /\ MatchesAt(RenderCreate(NameAt(index + 2), cols, FALSE), index) =>
                      IF cols = <<>>
                      THEN /\ pc' = "done"
                           /\ result' = Unexpected(peek_n(index, 4), index + 5)
                      ELSE /\ pc' = "parse"
                           /\ statements' = Append(statements,
                                  StatementCreate(NameAt(index + 2), Columns(cols)))
                           /\ index' = index
                                + Len(RenderCreate(NameAt(index + 2), cols, FALSE))
                           /\ peek_n(index', -1).tok = TokenRParen
                /\ MatchesAt(RenderCreate(NameAt(index + 2), cols, TRUE), index) =>
                      /\ pc' = "done"
                      /\ result'.st = "err"
                      /\ cols # <<>> => result'.val.tok = TokenRParen]_vars

C10_Witness ==
    /\ pc = "parse"
    /\ Len(statements) = 1
    /\ statements[1] = StatementCreate("t1",
           <<ColumnDef(ColumnTypeInt, "c1"), ColumnDef(ColumnTypeVarchar(1024), "c2")>>)
    /\ index = 13
    /\ tokens[13] = TokenRParen

(***************************************************************************)
(* parse_column_def as an entry point.                                     *)
(***************************************************************************)
\* The texts of number literals: the domain of Chars.
LiteralTexts == {"0", "5", "200", "1024", "65535", "65536", "99999", "1.5"}

\* What stands between the parentheses of VARCHAR( ).
LengthTokens ==
    { TokenNumberLiteral(t) : t \in LiteralTexts }
    \cup { TokenIdent("c1"), TokenStringLiteral("5"), TokenKeyword("Int"), TokenRParen }

ColumnDefTokens ==
    { TokenIdent("c1"), TokenKeyword("Int"), TokenKeyword("Varchar"), TokenLParen,
      TokenRParen, TokenNumberLiteral("5"), TokenNumberLiteral("65536"), TokenComma }

\* `name VARCHAR ( length`, then `)`, `) ,`, `,` or the end of the input.
ColumnDefInputs ==
    { <<TokenIdent(name), TokenKeyword("Varchar"), TokenLParen, m>> \o tail :
        name \in {"c1", "c2"}, m \in LengthTokens,
        tail \in { <<>>, <<TokenRParen>>, <<TokenRParen, TokenComma>>, <<TokenComma>> } }

ColumnDefTokenInputs == SeqsUpTo(ColumnDefTokens, MaxLen)

\* parser.parse_column_def(), on a parser positioned at a column definition.
CallParseColumnDef ==
    /\ pc = "parse_column_def"
    /\ LET Return(r) == result' = r /\ index' = r.idx
       IN Return(parse_column_def(index))
    /\ pc' = "done"
    /\ UNCHANGED <<tokens, cur, statements, want>>

InitColumnDef ==
    \/ \E input \in ColumnDefInputs : New(input, "parse_column_def")
    \/ \E input \in ColumnDefTokenInputs : New(input, "parse_column_def")

NextColumnDef == CallParseColumnDef

SpecColumnDef == InitColumnDef /\ [][NextColumnDef]_vars

\* `name VARCHAR (` stands at the start of the input.
VarcharHeader ==
    /\ IsIdentAt(0)
    /\ IsKeyword(peek_n(0, 1).tok, "Varchar")
    /\ peek_n(0, 2).tok = TokenLParen

\* The text is an unsigned decimal integer.
IsUnsignedInteger(text) ==
    /\ Chars(text) # <<>>
    /\ \A k \in 1..Len(Chars(text)) : to_digit(Chars(text)[k]) >= 0

LiteralValue(text) == Decimal(Chars(text), Len(Chars(text)))

\* The token is a number literal whose value is an integer in 0..65535.
FitsU16(t) ==
    /\ t.kind = "NumberLiteral"
    /\ IsUnsignedInteger(t.val)
    /\ LiteralValue(t.val) \in 0..65535

\* C11: the VARCHAR length bound.  In `name VARCHAR(n)` a number literal n
\* is accepted iff its value fits an unsigned 16-bit integer (0..65535), and
\* the column is then Varchar(n) with n the value of the literal; a literal
\* above 65535 or a token that is not a number literal gives
\* Err(Unexpected) carrying that token; no length is ever a wrapped or
\* truncated value.
C11_VarcharBound ==
    (pc = "done" /\ VarcharHeader) =>
        IF FitsU16(peek_n(0, 3).tok)
        THEN IF peek_n(0, 4).tok = TokenRParen
             THEN result = Ok(ColumnDef(ColumnTypeVarchar(LiteralValue(NameAt(3))),
                                        NameAt(0)), 5)
             ELSE result = Unexpected(peek_n(0, 4), 5)
        ELSE result = Unexpected(peek_n(0, 3), 4)

C11_Witness ==
    /\ pc = "done"
    /\ VarcharHeader
    /\ peek_n(0, 3).tok = TokenNumberLiteral("65535")
    /\ result = Ok(ColumnDef(ColumnTypeVarchar(65535), "c2"), 5)

(***************************************************************************)
(* check_tokens and check_keywords as entry points: the parser stands at   *)
(* any cursor of its token vector and `want` is the list it is asked for.  *)
(***************************************************************************)
CheckTokens ==
    { TokenKeyword("Group"), TokenKeyword("By"), TokenKeyword("Order"),
      TokenComma, TokenDot, TokenIdent("c1") }

CheckInputs == SeqsUpTo(CheckTokens, MaxLen)

\* The lists the parser passes (lines 176-188, 228, 283, 308) and longer ones.
TokenLists ==
    { <<>>, <<TokenComma>>, <<TokenDot>>, <<TokenIdent("c1"), TokenDot>>,
      <<TokenComma, TokenIdent("c1"), TokenDot>> }

KeywordLists ==
    { <<"Where">>, <<"By">>, <<"Group", "By">>, <<"Order", "By">>,
      <<"Group", "By", "Order">> }

\* self.check_tokens(want)
CallCheckTokens ==
    /\ pc = "check_tokens"
    /\ LET Return(r) == result' = Ok(r.b, r.idx) /\ index' = r.idx
       IN Return(check_tokens(want, index))
    /\ pc' = "check_tokens_done"
    /\ UNCHANGED <<tokens, cur, statements, want>>

\* self.check_keywords(want)
CallCheckKeywords ==
    /\ pc = "check_keywords"
    /\ LET Return(r) == result' = Ok(r.b, r.idx) /\ index' = r.idx
       IN Return(check_keywords(want, index))
    /\ pc' = "check_keywords_done"
    /\ UNCHANGED <<tokens, cur, statements, want>>

\* The cursor is anywhere from 0 to one past the end of the tokens.
InitCheck ==
    \E input \in CheckInputs : \E k \in 0..(Len(input) + 1) :
        /\ tokens = input
        /\ index = k
        /\ cur = TokenWithLocation(TokenEof, DefaultLocation)
        /\ statements = <<>>
        /\ result = NoResult
        /\ \/ pc = "check_tokens" /\ want \in TokenLists
           \/ pc = "check_keywords" /\ want \in KeywordLists

NextCheck == CallCheckTokens \/ CallCheckKeywords

SpecCheck == InitCheck /\ [][NextCheck]_vars

\* The tokens from cursor i on are the tokens ts, in order.
TokensMatch(ts, i) ==
    \A k \in 1..Len(ts) : i + k <= Len(tokens) /\ tokens[i + k] = ts[k]

\* The tokens from cursor i on are the keywords kws, in order.
KeywordsMatch(kws, i) ==
    \A k \in 1..Len(kws) : i + k <= Len(tokens) /\ tokens[i + k] = TokenKeyword(kws[k])

\* C12: check_tokens and check_keywords are all-or-nothing.  They return
\* true with the cursor advanced by exactly the length of the list iff the
\* next tokens are the whole list in order; otherwise they return false
\* with the cursor at its value on entry, also when a proper prefix of the
\* list matched and when the list runs past the end of the input.
C12_AllOrNothing ==
    [][/\ pc = "check_tokens" =>
            IF TokensMatch(want, index)
            THEN result' = Ok(TRUE, index + Len(want)) /\ index' = index + Len(want)
            ELSE result' = Ok(FALSE, index) /\ index' = index
       /\ pc = "check_keywords" =>
            IF KeywordsMatch(want, index)
            THEN result' = Ok(TRUE, index + Len(want)) /\ index' = index + Len(want)
            ELSE result' = Ok(FALSE, index) /\ index' = index]_vars

\* `GROUP` not followed by `BY`: check_keywords([Group, By]) has returned
\* false and the cursor is back at `GROUP`.
C12_Witness ==
    /\ pc = "check_keywords_done"
    /\ want = <<"Group", "By">>
    /\ result = Ok(FALSE, index)
    /\ index >= 1
    /\ IsKeyword(peek(index).tok, "Group")
    /\ ~IsKeyword(peek_n(index, 1).tok, "By")

(***************************************************************************)
(* The agreement of next_prec and parse_infix in the loop of parse_expr.   *)
(***************************************************************************)
\* The token at cursor i is a comparison, AND, OR, IS, BETWEEN, IN, or NOT
\* followed by BETWEEN or IN.
IsInfixTokenAt(i) ==
    \/ peek_n(i, 0).tok \in {TokenEq, TokenNeq, TokenLt, TokenLe, TokenGt, TokenGe}
    \/ \E kw \in {"And", "Or", "Is", "Between", "In"} : IsKeyword(peek_n(i, 0).tok, kw)
    \/ /\ IsKeyword(peek_n(i, 0).tok, "Not")
       /\ \E kw \in {"Between", "In"} : IsKeyword(peek_n(i, 1).tok, kw)

\* The loop of parse_expr calls parse_infix at cursor i for some threshold:
\* next_prec is Ok and greater than a u8.
CallsInfixAt(i) == next_prec(i).st = "ok" /\ next_prec(i).val > 0

\* r is Err(Unexpected) carrying the token parse_infix consumed at cursor i
\* (lines 421, 424 and 426).
OperatorRejected(r, i) == r.st = "err" /\ r.val = get(i)

\* Of the checks for BETWEEN and IN made after the pushback and the check
\* for NOT, at cursor k, one succeeds and the other does not.
OneOfBetweenIn(k) ==
    check_keywords(<<"Between">>, k).b # check_keywords(<<"In">>, k).b

\* C13: next_prec and parse_infix agree.  At every cursor at which the loop
\* of parse_expr calls parse_infix, the token consumed is a comparison, AND,
\* OR, IS, BETWEEN, IN, or NOT followed by BETWEEN / IN; the cursor the
\* pushback decrements is at least 1; after the pushback and the check for
\* NOT exactly one of the checks for BETWEEN and IN succeeds; and parse_infix
\* does not return the unexpected-token error for the operator token itself.
C13_PrecInfixAgree ==
    [][pc = "parse_expr" =>
          \A i \in 0..Len(tokens) :
              CallsInfixAt(i) =>
                  /\ IsInfixTokenAt(i)
                  /\ i + 1 >= 1
                  /\ (\E kw \in {"Not", "Between", "In"} : IsKeyword(peek_n(i, 0).tok, kw))
                        => OneOfBetweenIn(check_keywords(<<"Not">>, i).idx)
                  /\ ~OperatorRejected(
                         parse_infix(ExprValue(ValueNull), next_prec(i).val, i), i)]_vars

\* `x NOT IN (..)` has gone through parse_infix: NOT consumed, pushed back,
\* the check for BETWEEN failed and the check for IN succeeded.
C13_Witness ==
    /\ pc = "done"
    /\ Len(tokens) >= 3
    /\ IsKeyword(peek_n(0, 1).tok, "Not")
    /\ IsKeyword(peek_n(0, 2).tok, "In")
    /\ result.st = "ok"
    /\ result.val.tag = "InList"
    /\ result.val.negated
    /\ index = Len(tokens)

====
